---- MODULE Spec2Model ----
(***************************************************************************)
(* A model of caffe2/operators/filler_op.h: the FillerOp base class (shape *)
(* configuration checked at construction, shape resolution at every run),  *)
(* the fill strategies UniformFill, ConstantFill, GaussianFill, XavierFill *)
(* and MSRAFill, the static shape inference FillerTensorInference, and the *)
(* LengthsRangeFill operator.                                              *)
(*                                                                         *)
(* Three specifications share the variables:                               *)
(*   Spec           one filler operator: Construct, then RunOnDevice calls *)
(*   SpecInference  the same, plus calls of FillerTensorInference          *)
(*   SpecLengths    LengthsRangeFillOp::RunOnDevice, one loop turn a step  *)
(*                                                                         *)
(* Tensors are records [dims, data]: dims the dimension sizes, data the    *)
(* elements in linear order.  Dimension sizes and element values stay far  *)
(* below 2^31, where the int / TIndex (int64) conversions of the source    *)
(* (ToVectorTIndex, dim32, "int d : dims") keep the value.                 *)
(***************************************************************************)
EXTENDS Integers, Sequences, FiniteSets, TLC

VARIABLES op, out, last, inferred, lrf

vars == <<op, out, last, inferred, lrf>>

(* ------------------------------ bounds -------------------------------- *)

\* Longest "shape" / "extra_shape" argument and highest input rank.
MaxRank == 1
\* Largest dimension size (and largest element of a shape-carrying input).
MaxDim == 2
\* LengthsRangeFill: longest lengths vector and largest single length.
MaxSegments == 3
MaxLen == 2

(* --------------------------- value domains ---------------------------- *)

RECURSIVE SeqsUpTo(_, _)
\* All sequences over S of length at most n.
SeqsUpTo(S, n) ==
    IF n = 0 THEN {<<>>}
    ELSE LET shorter == SeqsUpTo(S, n - 1)
         IN  shorter \cup {Append(s, x) : s \in {t \in shorter : Len(t) = n - 1}, x \in S}

DimVals == 0..MaxDim

Shapes == SeqsUpTo(DimVals, MaxRank)

RECURSIVE Product(_)
Product(s) == IF s = <<>> THEN 1 ELSE Head(s) * Product(Tail(s))

RECURSIVE Sum(_)
Sum(s) == IF s = <<>> THEN 0 ELSE Head(s) + Sum(Tail(s))

\* Tensor::size(): the number of elements of a tensor of these dims.
Size(dims) == Product(dims)

\* Tensor::ndim().
Ndim(t) == Len(t.dims)

\* n copies of x.
Fill_n(n, x) == [i \in 1..n |-> x]

\* The input tensors a run may be given: a tensor of every shape in Shapes
\* with elements 0, and for every v in Shapes the rank-1 tensor whose TIndex
\* elements are v (read as a shape when input_as_shape is set).
InputTensors ==
    {[dims |-> d, data |-> Fill_n(Size(d), 0)] : d \in Shapes}
    \cup {[dims |-> <<Len(v)>>, data |-> v] : v \in Shapes}

\* Stands for "no input blob" in the record of a run of a 0-input operator.
NoInput == [dims |-> <<>>, data |-> <<>>]

OpKinds == {"UniformFill", "ConstantFill", "GaussianFill", "XavierFill", "MSRAFill"}

\* TensorProto_DataType values an OperatorDef may carry in "dtype";
\* "STRING" stands for every type the switch of ConstantFillOp has no case for.
DataTypes == {"UNDEFINED", "FLOAT", "INT32", "BOOL", "INT64", "STRING"}

\* What the Argument named "value" holds: a float (f), an int64 (i), bytes (s).
ValueKinds == {"float", "int", "bytes"}

DefaultArgs == [min |-> 0, max |-> 1, std |-> 1, dtype |-> "absent", value |-> "absent"]

\* The strategy arguments an OperatorDef of this kind may carry.
ArgsOf(kind) ==
    CASE kind = "UniformFill" ->
           {[DefaultArgs EXCEPT !.min = lo, !.max = hi] : lo \in 0..1, hi \in 0..1}
      [] kind = "GaussianFill" ->
           {[DefaultArgs EXCEPT !.std = s] : s \in -1..1}
      [] kind = "ConstantFill" ->
           {[DefaultArgs EXCEPT !.dtype = t, !.value = v] :
               t \in DataTypes \cup {"absent"}, v \in ValueKinds \cup {"absent"}}
      [] OTHER -> {DefaultArgs}

\* An operator definition: the operator kind, the number of inputs, and the
\* arguments.
OperatorDef(kind, nInputs, shape, extra_shape, input_as_shape, args) ==
    [kind |-> kind, nInputs |-> nInputs, shape |-> shape,
     extra_shape |-> extra_shape, input_as_shape |-> input_as_shape,
     args |-> args]

(* ------------------------ FillerOp: construction ----------------------- *)

\* ToVectorTIndex: vector<int> to vector<TIndex>; widening keeps every value.
ToVectorTIndex(v) == v

\* A variant of FillerOpCheck that lacks the input_as_shape check.
FillerOpCheck_NoInputAsShapeCheck(nInputs, shape_, extra_shape_, input_as_shape_) ==
    IF nInputs # 0
    THEN IF Len(shape_) # 0 THEN "shape_and_input" ELSE "none"
    ELSE IF extra_shape_ # <<>> THEN "extra_shape_without_input"
         ELSE "none"

\* The checks of FillerOp::FillerOp on (InputSize(), shape_, extra_shape_,
\* input_as_shape_): the message of the CAFFE_THROW reached, or "none".
FillerOpCheck(nInputs, shape_, extra_shape_, input_as_shape_) ==
    IF nInputs # 0
    THEN IF Len(shape_) # 0 THEN "shape_and_input" ELSE "none"
    ELSE IF extra_shape_ # <<>> THEN "extra_shape_without_input"
         ELSE IF input_as_shape_ THEN "input_as_shape_without_input"
         ELSE "none"

\* DCHECK_LT / DCHECK_GT: checked in a debug build (a failure ends the
\* process), compiled out when NDEBUG is defined.
DCheck(condition, ndebug) == ndebug \/ condition

\* UniformFillOp::UniformFillOp after the base constructor: TRUE when the
\* constructor returns, FALSE when the DCHECK ends the process.
UniformFillCtor(min_, max_, ndebug) == DCheck(min_ < max_, ndebug)

\* GaussianFillOp::GaussianFillOp after the base constructor.
GaussianFillCtor(std_, ndebug) == DCheck(std_ > 0, ndebug)

\* A variant of ConstantFillDtype that infers INT32 from an integer value.
ConstantFillDtype_IntAsInt32(dtypeArg, valueArg) ==
    LET dtype == IF dtypeArg = "absent" THEN "FLOAT" ELSE dtypeArg
    IN  IF dtypeArg = "absent" /\ valueArg # "absent"
        THEN IF valueArg = "float" THEN "FLOAT"
             ELSE IF valueArg = "int" THEN "INT32"
             ELSE "unexpected_value_type"
        ELSE dtype

\* ConstantFillOp::ConstantFillOp, first half: the dtype the switch is
\* entered with, or the error thrown before it.
ConstantFillDtype(dtypeArg, valueArg) ==
    LET dtype == IF dtypeArg = "absent" THEN "FLOAT" ELSE dtypeArg
    IN  IF dtypeArg = "absent" /\ valueArg # "absent"
        THEN IF valueArg = "float" THEN "FLOAT"
             ELSE IF valueArg = "int" THEN "INT64"
             ELSE "unexpected_value_type"
        ELSE dtype

\* ConstantFillOp::ConstantFillOp, second half: the switch that binds body_
\* to FillWithType<T>; the element type bound, or the error thrown.
ConstantFillBody(dtype) ==
    CASE dtype = "FLOAT" -> "FLOAT"
      [] dtype = "INT32" -> "INT32"
      [] dtype = "BOOL" -> "BOOL"
      [] dtype = "INT64" -> "INT64"
      [] dtype = "UNDEFINED" -> "undefined_dtype"
      [] dtype = "unexpected_value_type" -> "unexpected_value_type"
      [] OTHER -> "unexpected_dtype"

ElementTypes == {"FLOAT", "INT32", "BOOL", "INT64"}

\* The whole constructor of ConstantFillOp after the base constructor.
ConstantFillCtor(dtypeArg, valueArg) ==
    ConstantFillBody(ConstantFillDtype(dtypeArg, valueArg))

\* The state before any operator is constructed.
NoOp ==
    [state |-> "none", def |-> [kind |-> "none"], shape_ |-> <<>>,
     extra_shape_ |-> <<>>, input_as_shape_ |-> FALSE, body_ |-> "none",
     error |-> "none"]

\* The operator object (or what is left when construction fails) for def:
\* the base constructor reads the arguments and runs its checks, then the
\* strategy's own constructor runs.  state is "constructed", "failed" (an
\* exception left the constructor: no object) or "aborted" (a DCHECK ended
\* the process).
NewOperator(def, ndebug) ==
    LET shape_ == ToVectorTIndex(def.shape)
        extra_shape_ == ToVectorTIndex(def.extra_shape)
        base == FillerOpCheck(def.nInputs, shape_, extra_shape_, def.input_as_shape)
        made == [state |-> "constructed", def |-> def, shape_ |-> shape_,
                 extra_shape_ |-> extra_shape_,
                 input_as_shape_ |-> def.input_as_shape,
                 body_ |-> "none", error |-> "none"]
        body == ConstantFillCtor(def.args.dtype, def.args.value)
    IN  IF base # "none"
        THEN [made EXCEPT !.state = "failed", !.error = base]
        ELSE CASE def.kind = "UniformFill" ->
                    IF UniformFillCtor(def.args.min, def.args.max, ndebug)
                    THEN made
                    ELSE [made EXCEPT !.state = "aborted", !.error = "dcheck"]
               [] def.kind = "GaussianFill" ->
                    IF GaussianFillCtor(def.args.std, ndebug)
                    THEN made
                    ELSE [made EXCEPT !.state = "aborted", !.error = "dcheck"]
               [] def.kind = "ConstantFill" ->
                    IF body \in ElementTypes
                    THEN [made EXCEPT !.body_ = body]
                    ELSE [made EXCEPT !.state = "failed", !.error = body]
               [] OTHER -> made

(* ------------------------ FillerOp: execution -------------------------- *)

\* A variant of OutputShape that appends extra_shape_ only to copied dims.
OutputShape_DropsExtra(o, input) ==
    IF o.def.nInputs # 0
    THEN IF o.input_as_shape_
         THEN IF Ndim(input) # 1
              THEN [ok |-> FALSE, shape |-> <<>>]
              ELSE [ok |-> TRUE, shape |-> SubSeq(input.data, 1, input.dims[1])]
         ELSE [ok |-> TRUE, shape |-> input.dims \o o.extra_shape_]
    ELSE [ok |-> TRUE, shape |-> o.shape_]

\* A variant of OutputShape that lacks the CAFFE_ENFORCE_EQ on the rank and
\* reads as many elements as the input holds.
OutputShape_NoRankCheck(o, input) ==
    IF o.def.nInputs # 0
    THEN IF o.input_as_shape_
         THEN [ok |-> TRUE, shape |-> input.data \o o.extra_shape_]
         ELSE [ok |-> TRUE, shape |-> input.dims \o o.extra_shape_]
    ELSE [ok |-> TRUE, shape |-> o.shape_]

\* FillerOp::RunOnDevice up to the Resize: the shape the output is resized
\* to, or the failure of the CAFFE_ENFORCE_EQ on the input's rank.
OutputShape(o, input) ==
    IF o.def.nInputs # 0
    THEN IF o.input_as_shape_
         THEN IF Ndim(input) # 1
              THEN [ok |-> FALSE, shape |-> <<>>]
              ELSE [ok |-> TRUE,
                    shape |-> SubSeq(input.data, 1, input.dims[1]) \o o.extra_shape_]
         ELSE [ok |-> TRUE, shape |-> input.dims \o o.extra_shape_]
    ELSE [ok |-> TRUE, shape |-> o.shape_]

\* Tensor::Resize: the dims are set; the elements are not initialised.
Resize(dims) == [dims |-> dims, data |-> Fill_n(Size(dims), "uninit")]

\* Tensor::dim32(i), i counted from 0: the dimension, or -1 for the shape
\* error raised when the tensor has no such dimension.
Dim32(t, i) == IF i < Ndim(t) THEN t.dims[i + 1] ELSE -1

\* int division a / b as a build executes it: the set of its outcomes.
\* The language leaves a / 0 undefined; a build makes of it a trap that ends
\* the process (SIGFPE on x86), or a quotient of 0 and no trap (the sdiv
\* instruction of ARM).
IntDiv(a, b) ==
    IF b = 0
    THEN {[trap |-> TRUE, q |-> 0], [trap |-> FALSE, q |-> 0]}
    ELSE {[trap |-> FALSE, q |-> a \div b]}

\* The result of a Fill that returned true having written n elements x.
Filled(t, x, drawn, set) ==
    [outcome |-> "ok", out |-> [t EXCEPT !.data = Fill_n(Size(t.dims), x)],
     drawn |-> drawn, set |-> set, writes |-> Size(t.dims)]

\* The result of a Fill that did not return: the output is left as resized.
NotFilled(t, outcome) ==
    [outcome |-> outcome, out |-> t, drawn |-> 0, set |-> FALSE, writes |-> 0]

\* UniformFillOp::Fill: RandUniform draws size() values in [min_, max_).
UniformFill(t) == {Filled(t, "uniform", Size(t.dims), FALSE)}

\* GaussianFillOp::Fill: RandGaussian draws size() values.
GaussianFill(t) == {Filled(t, "gaussian", Size(t.dims), FALSE)}

\* The field of the Argument that GetSingleArgument<T> reads: f for float,
\* i for int, bool and int64_t.
ArgumentField(T) == IF T = "FLOAT" THEN "float" ELSE "int"

\* OperatorBase::GetSingleArgument<T>("value", 0) as FillWithType<T> calls
\* it: TRUE when it returns (the argument is absent, and the default 0 is
\* returned, or it holds the field of T), FALSE when it throws because the
\* argument holds another field.
GetSingleArgumentValue(T, valueArg) ==
    valueArg = "absent" \/ valueArg = ArgumentField(T)

\* ConstantFillOp::FillWithType<T>: the value is read from the argument
\* first; math::Set is called only when the output has elements.
FillWithType(T, valueArg, t) ==
    IF ~GetSingleArgumentValue(T, valueArg)
    THEN {NotFilled(t, "ArgumentError")}
    ELSE IF Size(t.dims) # 0
    THEN {Filled(t, <<"value", T>>, 0, TRUE)}
    ELSE {[outcome |-> "ok", out |-> t, drawn |-> 0, set |-> FALSE, writes |-> 0]}

\* XavierFillOp::Fill: fan_in = size() / dim32(0), then RandUniform draws
\* size() values in [-scale, scale].
XavierFill(t) ==
    LET d == Dim32(t, 0)
    IN  IF d < 0 THEN {NotFilled(t, "ShapeError")}
        ELSE {IF fan_in.trap THEN NotFilled(t, "trap")
              ELSE Filled(t, "xavier", Size(t.dims), FALSE) :
                fan_in \in IntDiv(Size(t.dims), d)}

\* MSRAFillOp::Fill: fan_out = size() / dim32(1), then RandGaussian draws
\* size() values.
MSRAFill(t) ==
    LET d == Dim32(t, 1)
    IN  IF d < 0 THEN {NotFilled(t, "ShapeError")}
        ELSE {IF fan_out.trap THEN NotFilled(t, "trap")
              ELSE Filled(t, "msra", Size(t.dims), FALSE) :
                fan_out \in IntDiv(Size(t.dims), d)}

\* The virtual call Fill(output) of FillerOp::RunOnDevice: the set of its
\* possible results.
Fill(o, t) ==
    CASE o.def.kind = "UniformFill" -> UniformFill(t)
      [] o.def.kind = "GaussianFill" -> GaussianFill(t)
      [] o.def.kind = "ConstantFill" -> FillWithType(o.body_, o.def.args.value, t)
      [] o.def.kind = "XavierFill" -> XavierFill(t)
      [] o.def.kind = "MSRAFill" -> MSRAFill(t)

\* The record of the latest run: its outcome, the input it was given, the
\* shape the output was resized to, what Fill did, and (retry) whether this
\* run reached Fill right after a run that failed on its input's rank.
NoRun ==
    [outcome |-> "none", input |-> NoInput, resized |-> FALSE, shape |-> <<>>,
     fillCalled |-> FALSE, set |-> FALSE, drawn |-> 0, writes |-> 0,
     retry |-> FALSE]

\* A fresh output tensor: no dims, no elements.
EmptyTensor == [dims |-> <<>>, data |-> <<>>]

\* What FillerTensorInference last returned, and for which input shapes.
NoInference == [called |-> FALSE, in |-> <<>>, unknown_shape |-> FALSE,
                dims |-> <<>>, data_type |-> "none"]

\* LengthsRangeFill before it runs.
LrfIdle ==
    [pc |-> "idle", input |-> NoInput, out |-> EmptyTensor, len_sum |-> 0,
     offset |-> 0, i |-> 0, written |-> <<>>]

(* ----------------------- FillerTensorInference ------------------------- *)

\* FillerTensorInference(def, in): in holds the declared shape of each input
\* of def.  The result is out[0]: its data_type, and either unknown_shape or
\* its dims.
FillerTensorInference(def, in) ==
    LET data_type == IF def.args.dtype = "absent" THEN "FLOAT" ELSE def.args.dtype
    IN  IF Len(in) # 0
        THEN IF def.input_as_shape
             THEN [unknown_shape |-> TRUE, dims |-> <<>>, data_type |-> data_type]
             ELSE [unknown_shape |-> FALSE, dims |-> in[1], data_type |-> data_type]
        ELSE [unknown_shape |-> FALSE, dims |-> def.shape, data_type |-> data_type]

(* ------------------------- LengthsRangeFillOp -------------------------- *)

\* The inputs of LengthsRangeFill: every vector of at most MaxSegments
\* lengths in 0..MaxLen, and tensors of the other ranks.
LrfInputs ==
    {[dims |-> <<Len(v)>>, data |-> v] : v \in SeqsUpTo(0..MaxLen, MaxSegments)}
    \cup {[dims |-> d, data |-> Fill_n(Size(d), 0)] :
             d \in {<<>>} \cup {s \in Shapes : Len(s) > 1}}

\* std::accumulate(first, last, 0) over int32 elements.
Accumulate(data) == Sum(data)

\* A variant of Iota that counts from the offset on instead of from 0.
Iota_FromOffset(data, offset, len) ==
    [k \in 1..Len(data) |->
        IF offset < k /\ k <= offset + len THEN k - 1 ELSE data[k]]

\* std::iota(start, start + len, 0) with start = output_data + offset:
\* the output elements after it.
Iota(data, offset, len) ==
    [k \in 1..Len(data) |->
        IF offset < k /\ k <= offset + len THEN k - offset - 1 ELSE data[k]]

\* The number of writes each output element has had, after that iota.
IotaWrites(written, offset, len) ==
    [k \in 1..Len(written) |->
        IF offset < k /\ k <= offset + len THEN written[k] + 1 ELSE written[k]]

(* ----------------------------- actions --------------------------------- *)

Init ==
    /\ op = NoOp
    /\ out = EmptyTensor
    /\ last = NoRun
    /\ inferred = NoInference
    /\ lrf = LrfIdle

\* An operator is created from an operator definition: any kind, zero or
\* one input, any arguments; the build is a debug build or one with NDEBUG.
Construct ==
    /\ op.state = "none"
    /\ \E kind \in OpKinds, nInputs \in 0..1, shape \in Shapes,
          extra_shape \in Shapes, input_as_shape \in BOOLEAN, ndebug \in BOOLEAN :
          \E args \in ArgsOf(kind) :
             op' = NewOperator(OperatorDef(kind, nInputs, shape, extra_shape,
                                           input_as_shape, args), ndebug)
    /\ UNCHANGED <<out, last, inferred, lrf>>

\* A variant of RunOnDevice that builds the shape in the member shape_
\* instead of a local vector.
RunOnDevice_AppendsToMember ==
    /\ op.state = "constructed"
    /\ \E input \in (IF op.def.nInputs = 0 THEN {NoInput} ELSE InputTensors) :
          LET resolved == OutputShape(op, input)
              shape == IF op.def.nInputs = 0 THEN op.shape_
                       ELSE op.shape_ \o resolved.shape
          IN  IF ~resolved.ok
              THEN /\ last' = [NoRun EXCEPT !.outcome = "ShapeError",
                                            !.input = input]
                   /\ UNCHANGED <<op, out>>
              ELSE \E fill \in Fill(op, Resize(shape)) :
                   /\ out' = fill.out
                   /\ last' = [outcome |-> fill.outcome, input |-> input,
                               resized |-> TRUE, shape |-> shape,
                               fillCalled |-> TRUE, set |-> fill.set,
                               drawn |-> fill.drawn, writes |-> fill.writes,
                               retry |-> (last.outcome = "ShapeError"
                                          /\ ~last.resized)]
                   /\ op' = [op EXCEPT !.shape_ = shape,
                                       !.state = IF fill.outcome = "trap"
                                                 THEN "crashed" ELSE @]
    /\ UNCHANGED <<inferred, lrf>>

\* FillerOp::RunOnDevice on a constructed operator, with the input blob (if
\* the operator has one) holding any tensor.
RunOnDevice ==
    /\ op.state = "constructed"
    /\ \E input \in (IF op.def.nInputs = 0 THEN {NoInput} ELSE InputTensors) :
          LET resolved == OutputShape(op, input)
          IN  IF ~resolved.ok
              THEN /\ last' = [NoRun EXCEPT !.outcome = "ShapeError",
                                            !.input = input]
                   /\ UNCHANGED <<op, out>>
              ELSE \E fill \in Fill(op, Resize(resolved.shape)) :
                   /\ out' = fill.out
                   /\ last' = [outcome |-> fill.outcome, input |-> input,
                               resized |-> TRUE, shape |-> resolved.shape,
                               fillCalled |-> TRUE, set |-> fill.set,
                               drawn |-> fill.drawn, writes |-> fill.writes,
                               retry |-> (last.outcome = "ShapeError"
                                          /\ ~last.resized)]
                   /\ op' = IF fill.outcome = "trap"
                            THEN [op EXCEPT !.state = "crashed"]
                            ELSE op
    /\ UNCHANGED <<inferred, lrf>>

Next == Construct \/ RunOnDevice

Spec == Init /\ [][Next]_vars

\* The shape-propagation pass calls FillerTensorInference with the operator's
\* definition and one declared shape per input of the definition.
Infer ==
    /\ op.state # "none"
    /\ \E in \in (IF op.def.nInputs = 0 THEN {<<>>} ELSE {<<d>> : d \in Shapes}) :
          LET r == FillerTensorInference(op.def, in)
          IN  inferred' = [called |-> TRUE, in |-> in,
                           unknown_shape |-> r.unknown_shape, dims |-> r.dims,
                           data_type |-> r.data_type]
    /\ UNCHANGED <<op, out, last, lrf>>

NextInference == Construct \/ RunOnDevice \/ Infer

SpecInference == Init /\ [][NextInference]_vars

\* LengthsRangeFillOp::RunOnDevice up to the loop: the rank check, the sum of
\* the lengths, the Resize of the output.
LrfBegin ==
    /\ lrf.pc = "idle"
    /\ \E input \in LrfInputs :
          IF Ndim(input) # 1
          THEN lrf' = [lrf EXCEPT !.pc = "error", !.input = input]
          ELSE LET len_sum == Accumulate(input.data)
               IN  lrf' = [pc |-> "loop", input |-> input,
                           out |-> Resize(<<len_sum>>), len_sum |-> len_sum,
                           offset |-> 0, i |-> 0,
                           written |-> Fill_n(len_sum, 0)]
    /\ UNCHANGED <<op, out, last, inferred>>

\* One turn of the loop: iota over the segment of input element i.
LrfIter ==
    /\ lrf.pc = "loop"
    /\ lrf.i < Size(lrf.input.dims)
    /\ LET len == lrf.input.data[lrf.i + 1]
       IN  lrf' = [lrf EXCEPT
                     !.out.data = Iota(lrf.out.data, lrf.offset, len),
                     !.written = IotaWrites(lrf.written, lrf.offset, len),
                     !.offset = lrf.offset + len,
                     !.i = lrf.i + 1]
    /\ UNCHANGED <<op, out, last, inferred>>

\* The loop ends and RunOnDevice returns true.
LrfReturn ==
    /\ lrf.pc = "loop"
    /\ ~(lrf.i < Size(lrf.input.dims))
    /\ lrf' = [lrf EXCEPT !.pc = "done"]
    /\ UNCHANGED <<op, out, last, inferred>>

NextLengths == LrfBegin \/ LrfIter \/ LrfReturn

SpecLengths == Init /\ [][NextLengths]_vars

(* ------------------------------ claims --------------------------------- *)

\* The errors of the shape-configuration checks of FillerOp::FillerOp.
ConfigErrors ==
    {"shape_and_input", "extra_shape_without_input", "input_as_shape_without_input"}

\* The shape the arguments of the definition and the input of the latest
\* run call for: "shape" with no input, the input's dims or (input_as_shape)
\* its elements with an input, "extra_shape" appended.
ExpectedShape(def, input) ==
    IF def.nInputs = 0 THEN def.shape
    ELSE IF def.input_as_shape THEN input.data \o def.extra_shape
    ELSE input.dims \o def.extra_shape

\* C1: every run of a constructed operator that reaches the Resize resizes
\* the output to config.shape (no input), dims(input) ++ extra_shape (input,
\* input_as_shape false) or values(input) ++ extra_shape (rank-1 input,
\* input_as_shape true), and then calls Fill.
C1_ResizedToResolvedShape ==
    last.resized =>
        /\ last.shape = ExpectedShape(op.def, last.input)
        /\ out.dims = ExpectedShape(op.def, last.input)
        /\ last.fillCalled

\* A run with input_as_shape took its shape from the elements of a non-empty
\* rank-1 input and appended a non-empty extra_shape.
C1_Witness ==
    /\ last.resized
    /\ op.input_as_shape_
    /\ last.input.data # <<>>
    /\ op.extra_shape_ # <<>>
    /\ last.input.data # last.input.dims

\* C2: construction fails with a configuration error exactly when (a) an
\* input is present and shape is non-empty, (b) no input and extra_shape is
\* non-empty, or (c) no input and input_as_shape; so no operator object
\* exists whose configuration violates the exclusivity invariant.
C2_ConfigurationChecked ==
    op.state # "none" =>
        LET d == op.def
            bad == \/ d.nInputs # 0 /\ d.shape # <<>>
                   \/ d.nInputs = 0 /\ d.extra_shape # <<>>
                   \/ d.nInputs = 0 /\ d.input_as_shape
        IN  /\ bad => op.state = "failed" /\ op.error \in ConfigErrors
            /\ ~bad => op.error \notin ConfigErrors
            /\ op.state = "constructed" => ~bad

\* Construction failed on input_as_shape without an input, every other
\* field being acceptable.
C2_Witness ==
    /\ op.state = "failed"
    /\ op.error = "input_as_shape_without_input"
    /\ op.def.nInputs = 0
    /\ op.def.extra_shape = <<>>

\* The declared input shapes of the latest run.
DeclaredShapes == IF op.def.nInputs = 0 THEN <<>> ELSE <<last.input.dims>>

\* C3: FillerTensorInference reports unknown_shape exactly when an input is
\* present and input_as_shape is true, and otherwise returns the shape that
\* RunOnDevice resizes the output to for the same configuration and an input
\* of the declared shape.
C3_InferenceMatchesRun ==
    (inferred.called /\ op.state # "none") =>
        /\ inferred.unknown_shape = (op.def.nInputs # 0 /\ op.def.input_as_shape)
        /\ (last.resized /\ inferred.in = DeclaredShapes /\ ~inferred.unknown_shape)
              => inferred.dims = out.dims

\* C4: with input_as_shape, a run on an input whose rank is not 1 fails with
\* a shape error, leaves the output tensor as it was and does not call Fill.
C4_RankErrorBeforeResize ==
    [][(/\ op.state = "constructed"
        /\ op.input_as_shape_
        /\ last' # last
        /\ Ndim(last'.input) # 1)
          => (/\ last'.outcome = "ShapeError"
              /\ ~last'.resized
              /\ ~last'.fillCalled
              /\ out' = out
              /\ op' = op)]_vars

\* A failed run left in place the elements an earlier run had written.
C4_Witness ==
    /\ last.outcome = "ShapeError"
    /\ ~last.resized
    /\ Ndim(last.input) # 1
    /\ out.data # <<>>

\* The constructor of ConstantFillOp was reached: the checks of the base
\* constructor passed.
ConstantFillReached ==
    /\ op.state # "none"
    /\ op.def.kind = "ConstantFill"
    /\ op.error \notin ConfigErrors

\* C5 as stated: an explicit dtype wins; with no dtype a float value gives
\* float32 and an integer value int64; construction fails when neither a
\* dtype nor a float or integer value determines the type, and when dtype is
\* UNDEFINED or unsupported.
C5_Original ==
    ConstantFillReached =>
        LET t == op.def.args.dtype
            v == op.def.args.value
        IN  /\ t \in ElementTypes => op.state = "constructed" /\ op.body_ = t
            /\ (t = "absent" /\ v = "float")
                  => op.state = "constructed" /\ op.body_ = "FLOAT"
            /\ (t = "absent" /\ v = "int")
                  => op.state = "constructed" /\ op.body_ = "INT64"
            /\ (t = "absent" /\ v \notin {"float", "int"}) => op.state = "failed"
            /\ (t \notin ElementTypes \cup {"absent"}) => op.state = "failed"

\* C5 as amended: as above, but with neither dtype nor value the element
\* type is float32 (the default); without a dtype construction fails only
\* when value is present and is neither a float nor an integer.
C5_Amended ==
    ConstantFillReached =>
        LET t == op.def.args.dtype
            v == op.def.args.value
        IN  /\ t \in ElementTypes => op.state = "constructed" /\ op.body_ = t
            /\ (t = "absent" /\ v \in {"float", "absent"})
                  => op.state = "constructed" /\ op.body_ = "FLOAT"
            /\ (t = "absent" /\ v = "int")
                  => op.state = "constructed" /\ op.body_ = "INT64"
            /\ (t = "absent" /\ v \notin {"float", "int", "absent"})
                  => op.state = "failed" /\ op.error = "unexpected_value_type"
            /\ (t \notin ElementTypes \cup {"absent"})
                  => op.state = "failed"
                     /\ op.error \in {"undefined_dtype", "unexpected_dtype"}
            /\ op.state \in {"constructed", "failed"}

\* A ConstantFill with neither dtype nor value was constructed, as float32.
C5_Witness ==
    /\ ConstantFillReached
    /\ op.def.args.dtype = "absent"
    /\ op.def.args.value = "absent"
    /\ op.state = "constructed"
    /\ op.body_ = "FLOAT"

\* C6: no UniformFill operator exists with min >= max and no GaussianFill
\* operator with std <= 0, so Fill never runs with such parameters.
C6_ParametersChecked ==
    op.state = "constructed" =>
        /\ op.def.kind = "UniformFill" => op.def.args.min < op.def.args.max
        /\ op.def.kind = "GaussianFill" => op.def.args.std > 0

\* C7: XavierFill and MSRAFill end in a divide-by-zero error, having drawn
\* nothing, when the divisor dimension (the first for Xavier, the second for
\* MSRA) is 0, and MSRAFill in a shape error on an output of rank below 2.
\* A trap of the division is counted as the divide-by-zero error.
C7_DefinedErrorOutcome ==
    last.fillCalled =>
        /\ (op.def.kind = "XavierFill" /\ Len(out.dims) >= 1 /\ out.dims[1] = 0)
              => last.outcome \in {"DivideByZeroError", "trap"} /\ last.drawn = 0
        /\ (op.def.kind = "MSRAFill" /\ Len(out.dims) >= 2 /\ out.dims[2] = 0)
              => last.outcome \in {"DivideByZeroError", "trap"} /\ last.drawn = 0
        /\ (op.def.kind = "MSRAFill" /\ Len(out.dims) < 2)
              => last.outcome = "ShapeError" /\ last.drawn = 0

\* C8: a run whose resolved shape has a dimension 0 does not crash and
\* writes no element, whatever the strategy; ConstantFill does not call Set
\* and returns success.
C8_ZeroSizeIsHarmless ==
    (last.fillCalled /\ \E k \in 1..Len(last.shape) : last.shape[k] = 0) =>
        /\ last.outcome # "trap"
        /\ last.writes = 0
        /\ op.def.kind = "ConstantFill" => ~last.set /\ last.outcome = "ok"

\* C9: a run, failed or not, leaves shape, extra_shape and input_as_shape as
\* construction set them, and a run that reaches the Resize resizes to the
\* shape that the configuration and this run's input alone determine,
\* whatever the runs before it did.
C9_ConfigurationFixed ==
    [][op.state = "constructed" =>
          /\ op'.def = op.def
          /\ op'.shape_ = op.def.shape
          /\ op'.extra_shape_ = op.def.extra_shape
          /\ op'.input_as_shape_ = op.def.input_as_shape
          /\ last'.resized =>
                /\ out'.dims = ExpectedShape(op.def, last'.input)
                /\ Len(out'.data) = Size(out'.dims)]_vars

\* A run succeeded right after a run of the same operator had failed on the
\* rank of its input.
C9_Witness ==
    /\ last.retry
    /\ last.outcome = "ok"
    /\ op.input_as_shape_
    /\ out.data # <<>>
    /\ out.dims # <<>>

RECURSIVE Ranges(_)
\* 0..len-1 for each len of lengths, concatenated.
Ranges(lengths) ==
    IF lengths = <<>> THEN <<>>
    ELSE [k \in 1..Head(lengths) |-> k - 1] \o Ranges(Tail(lengths))

\* C10: for a rank-1 input of non-negative lengths the output has
\* sum(lengths) elements; the running offset is the sum of the lengths done
\* and never exceeds sum(lengths); no element is written twice; at the end
\* the offset is the output size, every element was written once and the
\* output is 0..len-1 for each length in turn.
C10_LengthsRange ==
    lrf.pc \in {"loop", "done"} =>
        LET lengths == lrf.input.data
        IN  /\ lrf.out.dims = <<Sum(lengths)>>
            /\ Len(lrf.out.data) = Sum(lengths)
            /\ lrf.offset = Sum(SubSeq(lengths, 1, lrf.i))
            /\ lrf.offset <= Sum(lengths)
            /\ \A k \in 1..Len(lrf.written) :
                  lrf.written[k] = (IF k <= lrf.offset THEN 1 ELSE 0)
            /\ SubSeq(lrf.out.data, 1, lrf.offset) = Ranges(SubSeq(lengths, 1, lrf.i))
            /\ lrf.pc = "done" =>
                  /\ lrf.i = Len(lengths)
                  /\ lrf.offset = Size(lrf.out.dims)
                  /\ lrf.out.data = Ranges(lengths)

\* A run over three segments, one of them empty and one longer than 1, ended.
C10_Witness ==
    /\ lrf.pc = "done"
    /\ Len(lrf.input.data) = 3
    /\ \E k \in 1..3 : lrf.input.data[k] = 0
    /\ \E k \in 1..3 : lrf.input.data[k] > 1
    /\ lrf.input.data[3] > 0

====
